---------------------------- MODULE Spec2Model ----------------------------
(***************************************************************************)
(* A model of two adapter-layer files of the gateway:                      *)
(*   src/litellm/integrations/custom_logger.py   (CustomLogger)            *)
(*   src/litellm/llms/groq/chat/transformation.py (GroqChatConfig)         *)
(*                                                                         *)
(* Python values are tagged records: None, booleans, integers, strings     *)
(* (sequences of one-character strings) and lists.  A dict whose text      *)
(* rendering matters is the sequence of its items in insertion order; a    *)
(* dict that is read and written by key is a function from its keys.       *)
(* Each operation of the source is one action; each group of operations    *)
(* has a specification of its own over the shared variables.               *)
(***************************************************************************)
EXTENDS Integers, Sequences, FiniteSets, TLC

VARIABLES
    \* ---- CustomLogger.truncate_standard_logging_payload_content ----
    standard_logging_object,  \* the payload dict the caller passes, mutated in place
    truncate_input,           \* the payload as it was when the first call was made
    truncate_calls,           \* number of truncate calls made on the payload
    \* ---- CustomLogger.redact_standard_logging_payload_from_model_call_details ----
    heap,                     \* the objects (dicts, lists) alive, by identity
    heap_at_call,             \* the heap as it was when redact was called
    model_call_details,       \* identity of the dict the caller passes
    turn_off_message_logging, \* the logger's flag (self.turn_off_message_logging)
    redact_result,            \* what the call returned; None before the call
    \* ---- GroqChatConfig._transform_messages ----
    messages,                 \* the list the caller passes, assigned to in place
    messages_at_call,         \* the list as it was when the call was made
    is_async,                 \* the calling convention asked for
    transform_result,         \* None before the call, then a coroutine or the list
    \* ---- GroqChatConfig.map_openai_params ----
    non_default_params,       \* the caller's request parameters, popped from in place
    non_default_params_at_call, \* the request parameters as the caller passed them
    optional_params,          \* the output parameters, written in place
    model,                    \* the target model
    drop_params,              \* the drop_params argument
    map_result,               \* None before the call, then the returned dict or the error
    \* ---- GroqChatConfig.transform_response ----
    model_response,           \* the response object, as the base class returned it, then as returned
    service_tier_received,    \* the service_tier the base class's response carried
    response_transformed,     \* whether transform_response has returned
    \* ---- GroqChatConfig._get_openai_compatible_provider_info ----
    api_base,                 \* the api_base argument
    api_key,                  \* the api_key argument
    secrets,                  \* what get_secret_str finds: GROQ_API_BASE, GROQ_API_KEY
    provider_info,            \* None before the call, then the returned pair
    \* ---- CustomLogger.log_event and the other dispatch helpers ----
    plugins,                  \* per registered plugin, what its callback does when called
    helper,                   \* the dispatch helper this lifecycle instant goes through
    kwargs,                   \* the caller's kwargs dict, written to in place
    kwargs_at_call,           \* kwargs as the caller held it before the first dispatch
    dispatched,               \* how many plugins the helper has been called for
    attempts,                 \* per plugin, how many times its callback was called
    verbose_log,              \* what print_verbose was called with, in order
    escaped,                  \* the exception that left a helper, None if none did
    awaited,                  \* the plugin whose callback an async helper is suspended on, 0 if none
    \* ---- CustomLogger.async_post_call_streaming_iterator_hook ----
    upstream,                 \* the chunks the upstream producer yields, in order
    upstream_end,             \* how the producer ends after them: "stop" or "error"
    pulled,                   \* how many chunks the hook has taken from the producer
    hook_pc,                  \* where the generator is: "for", "yield" or "done"
    item,                     \* the loop variable of the generator
    received,                 \* the chunks the consumer has received, in order
    consumer_end,             \* "iterating", then how the stream ended: "stop" or "error"
    \* ---- CustomLogger: the default hooks ----
    hook,                     \* the hook called on a base CustomLogger
    hook_args,                \* the arguments of the call, by parameter name
    hook_outcome,             \* pending, then a coroutine, then what the call returned or raised
    \* ---- GroqChatConfig.__init__ ----
    class_attrs,              \* the attributes of the class GroqChatConfig
    instances,                \* the instances constructed, in order: their arguments and their own attributes
    \* ---- CustomLogger._truncate_text ----
    text_arg,                 \* the text argument of the first call
    max_length_arg,           \* the max_length argument of every call
    text_results              \* what the calls returned, in order: each call is given the previous result

truncVars == <<standard_logging_object, truncate_input, truncate_calls>>
redactVars == <<heap, heap_at_call, model_call_details,
                turn_off_message_logging, redact_result>>
messagesVars == <<messages, messages_at_call, is_async, transform_result>>
paramsVars == <<non_default_params, non_default_params_at_call, optional_params,
                model, drop_params, map_result>>
responseVars == <<model_response, service_tier_received, response_transformed>>
providerVars == <<api_base, api_key, secrets, provider_info>>
dispatchVars == <<plugins, helper, kwargs, kwargs_at_call, dispatched, attempts,
                  verbose_log, escaped, awaited>>
streamVars == <<upstream, upstream_end, pulled, hook_pc, item, received, consumer_end>>
hooksVars == <<hook, hook_args, hook_outcome>>
configVars == <<class_attrs, instances>>
textVars == <<text_arg, max_length_arg, text_results>>

vars == <<truncVars, redactVars, messagesVars, paramsVars, responseVars, providerVars, dispatchVars, streamVars, hooksVars, configVars, textVars>>

---------------------------------------------------------------------------
(* Python values *)

PyNone == [t |-> "None"]
PyStr(s) == [t |-> "str", v |-> s]
PyList(items) == [t |-> "list", v |-> items]
\* a dict is the sequence of its <<key, value>> items in insertion order
PyDict(items) == [t |-> "dict", v |-> items]

\* a text of n characters: a, b alternating, ending in z
Chars(n) == [i \in 1..n |-> IF i = n THEN "z" ELSE IF i % 2 = 0 THEN "b" ELSE "a"]

\* truthiness of a value, as `if value:` tests it
bool(x) == IF x.t = "None" THEN FALSE ELSE Len(x.v) > 0

\* the character c occurs in the string s
contains(s, c) == \E i \in 1..Len(s) : s[i] = c

\* list(s): the characters of a str
chars(s) == [i \in 1..Len(s) |-> SubSeq(s, i, i)]

\* The characters of a string are one-character strings, each character of
\* U+0001..U+00FF being itself.  A character that is given by name is the
\* escape sequence repr writes for it, a string of more than one character:
\* "\\u3000", "\\u200b", "\\U000e0001" for the non-printable characters above
\* U+00FF, and "\\x00" for U+0000.  A printable character above U+00FF is
\* written as it is, as every printable character is.

\* the characters U+0001..U+001F, in order
C0Controls == "\t\n\f\r"

\* the characters U+007F..U+00A0, in order
C1Controls == " "

\* the character U+00AD
SoftHyphen == "­"

\* the characters of U+0001..U+00FF that str.isprintable() rejects, each with
\* its code point
NonPrintableTable ==
    [i \in 1..Len(C0Controls) |-> <<SubSeq(C0Controls, i, i), i>>]
        \o [i \in 1..Len(C1Controls) |-> <<SubSeq(C1Controls, i, i), 126 + i>>]
        \o << <<SoftHyphen, 173>> >>

NonPrintable == {NonPrintableTable[i][1] : i \in DOMAIN NonPrintableTable}

\* ord(c) and chr(n) on the non-printable characters
ord(c) ==
    NonPrintableTable[CHOOSE i \in DOMAIN NonPrintableTable :
                          NonPrintableTable[i][1] = c][2]
chr(n) ==
    NonPrintableTable[CHOOSE i \in DOMAIN NonPrintableTable :
                          NonPrintableTable[i][2] = n][1]

HexDigits ==
    <<"0", "1", "2", "3", "4", "5", "6", "7", "8", "9", "a", "b", "c", "d", "e", "f">>

\* the characters of U+0001..U+00FF that repr may write otherwise than as
\* they are: the quotes, the backslash and the non-printable characters
SpecialChars == {"'", "\"", "\\"} \cup NonPrintable

\* c is a special character: one given by name, or one of SpecialChars
is_special(c) == Len(c) > 1 \/ c \in SpecialChars

\* the special characters of s, in order
specials(s) == SelectSeq(s, LAMBDA c : is_special(c))

\* the quote repr puts around a string with the special characters sp: double
\* quotes when it holds a single quote and no double quote, single quotes
\* otherwise
repr_quote(sp) == IF contains(sp, "'") /\ ~contains(sp, "\"") THEN "\"" ELSE "'"

\* the characters of U+0001..U+00FF written as an escape sequence between the
\* quotes: the backslash, the non-printable characters, and the single quote
\* between single quotes
EscapedChars(quote) ==
    {"\\"} \cup NonPrintable \cup (IF quote = "'" THEN {"'"} ELSE {})

\* c is written as an escape sequence between the quotes
is_escaped(c, quote) == Len(c) > 1 \/ c \in EscapedChars(quote)

\* how repr writes the character c between the quotes
repr_char(c, quote) ==
    CASE Len(c) > 1 -> chars(c)
      [] c = "\\" -> <<"\\", "\\">>
      [] c = "\n" -> <<"\\", "n">>
      [] c = "\t" -> <<"\\", "t">>
      [] c = "\r" -> <<"\\", "r">>
      [] c = "'" /\ quote = "'" -> <<"\\", "'">>
      [] c \in NonPrintable \ {"\n", "\t", "\r"} ->
           <<"\\", "x", HexDigits[(ord(c) \div 16) + 1], HexDigits[(ord(c) % 16) + 1]>>
      [] OTHER -> <<c>>

\* the characters of s, whose special characters are sp, as repr writes them
\* between the quotes
RECURSIVE repr_chars(_, _, _)
repr_chars(s, sp, quote) ==
    IF \A k \in 1..Len(sp) : ~is_escaped(sp[k], quote) THEN s
    ELSE LET i == CHOOSE i \in 1..Len(s) :
                    /\ is_escaped(s[i], quote)
                    /\ \A j \in 1..(i - 1) : ~is_escaped(s[j], quote)
             rest == SubSeq(s, i + 1, Len(s))
         IN  SubSeq(s, 1, i - 1) \o repr_char(s[i], quote)
                 \o repr_chars(rest, specials(rest), quote)

\* repr of a str
repr_str(s) ==
    LET sp == specials(s)
        quote == repr_quote(sp)
    IN  <<quote>> \o repr_chars(s, sp, quote) \o <<quote>>

RECURSIVE repr(_)
RECURSIVE JoinRepr(_)
RECURSIVE JoinItems(_)

\* repr(x): strings are quoted and escaped, containers render their elements
\* with repr
repr(x) ==
    CASE x.t = "None" -> <<"N", "o", "n", "e">>
      [] x.t = "str"  -> repr_str(x.v)
      [] x.t = "list" -> <<"[">> \o JoinRepr(x.v) \o <<"]">>
      [] x.t = "dict" -> <<"{">> \o JoinItems(x.v) \o <<"}">>

JoinRepr(items) ==
    IF items = <<>> THEN <<>>
    ELSE IF Len(items) = 1 THEN repr(items[1])
    ELSE repr(items[1]) \o <<",", " ">> \o JoinRepr(Tail(items))

JoinItems(items) ==
    IF items = <<>> THEN <<>>
    ELSE LET kv == repr(PyStr(items[1][1])) \o <<":", " ">> \o repr(items[1][2])
         IN IF Len(items) = 1 THEN kv
            ELSE kv \o <<",", " ">> \o JoinItems(Tail(items))

\* str(x): a string is itself, everything else renders as repr(x)
str(x) == IF x.t = "str" THEN x.v ELSE repr(x)

\* building a dict from a record of choices: a field set to Absent is left out
Absent == [t |-> "absent"]
Present(p) == [k \in {f \in DOMAIN p : p[f] # Absent} |-> p[k]]

---------------------------------------------------------------------------
(* CustomLogger: truncation of the logging payload *)

MAX_STR_LENGTH == 10000

fields_to_truncate == <<"error_str", "messages", "response">>

truncated_suffix ==
    <<".", ".", ".", "t", "r", "u", "n", "c", "a", "t", "e", "d", " ", "b", "y",
      " ", "l", "i", "t", "e", "l", "l", "m", ",", " ", "t", "h", "i", "s", " ",
      "l", "o", "g", "g", "e", "r", " ", "d", "o", "e", "s", " ", "n", "o", "t",
      " ", "s", "u", "p", "p", "o", "r", "t", " ", "l", "a", "r", "g", "e", " ",
      "c", "o", "n", "t", "e", "n", "t">>

\* a slip in the slice: one character too few is kept
_truncate_text_short_slice(text, max_length) ==
    IF Len(text) > max_length
    THEN SubSeq(text, 1, max_length - 1) \o truncated_suffix
    ELSE text

\* a marker put before the kept characters instead of after them
_truncate_text_marker_first(text, max_length) ==
    IF Len(text) > max_length
    THEN truncated_suffix \o SubSeq(text, 1, max_length)
    ELSE text

\* text[:max_length] + suffix if len(text) > max_length else text
_truncate_text(text, max_length) ==
    IF Len(text) > max_length
    THEN SubSeq(text, 1, max_length) \o truncated_suffix
    ELSE text

\* dict.get(key): the value, or None when the key is absent
get(d, key) == IF key \in DOMAIN d THEN d[key] ELSE PyNone

\* d[key] = value on a dict held as a function from its keys
setitem(d, key, value) ==
    [k \in DOMAIN d \cup {key} |-> IF k = key THEN value ELSE d[k]]

_truncate_field(slo, field_name, max_length) ==
    LET field_value == get(slo, field_name)
    IN IF bool(field_value)
       THEN LET str_value == str(field_value)
            IN IF Len(str_value) > max_length
               THEN setitem(slo, field_name,
                            PyStr(_truncate_text(str_value, max_length)))
               ELSE slo
       ELSE slo

RECURSIVE TruncateFields(_, _)
TruncateFields(slo, fields) ==
    IF fields = <<>> THEN slo
    ELSE TruncateFields(_truncate_field(slo, Head(fields), MAX_STR_LENGTH),
                        Tail(fields))

truncate_standard_logging_payload_content(slo) ==
    TruncateFields(slo, fields_to_truncate)

---------------------------------------------------------------------------
(* Inputs of the truncation *)

\* how far around MAX_STR_LENGTH the rendered lengths of the inputs range
MaxOver == 1
\* how many times the payload is truncated
MaxTruncateCalls == 2

NearLimit == (MAX_STR_LENGTH - MaxOver)..(MAX_STR_LENGTH + MaxOver)

k_role == <<"r", "o", "l", "e">>
k_content == <<"c", "o", "n", "t", "e", "n", "t">>
k_id == <<"i", "d">>
s_user == <<"u", "s", "e", "r">>

\* one chat message {'role': role, 'content': content}
ChatMessage(role, content) ==
    PyDict(<< <<k_role, PyStr(role)>>, <<k_content, PyStr(content)>> >>)

\* a message list / a response dict whose rendering has n characters
MessagesOfLen(n) ==
    LET overhead == Len(str(PyList(<<ChatMessage(s_user, <<>>)>>)))
    IN PyList(<<ChatMessage(s_user, Chars(n - overhead))>>)

ResponseOfLen(n) ==
    LET overhead == Len(str(PyDict(<< <<k_id, PyStr(<<>>)>> >>)))
    IN PyDict(<< <<k_id, PyStr(Chars(n - overhead))>> >>)

\* what a content starts with when it holds characters repr quotes or escapes
SpecialPrefixes ==
    {<<"'">>, <<"\\">>, <<"\n">>, <<"'", "\"">>, <<chr(27)>>, <<"\\u3000">>}

\* a message list whose content starts with p and that would render to
\* MAX_STR_LENGTH characters were p written as it is
MessagesWith(p) ==
    LET overhead == Len(str(PyList(<<ChatMessage(s_user, <<>>)>>)))
    IN PyList(<<ChatMessage(s_user, p \o Chars(MAX_STR_LENGTH - overhead - Len(p)))>>)

\* a response dict whose key holds a quote and whose value starts with a
\* backslash, one character under MAX_STR_LENGTH were they written as they are
ResponseWithQuotedKey ==
    LET key == <<"i", "'", "d">>
        overhead == Len(str(PyDict(<< <<key, PyStr(<<>>)>> >>)))
    IN PyDict(<< <<key, PyStr(<<"\\">> \o Chars(MAX_STR_LENGTH - overhead - 2))>> >>)

ErrorStrValues ==
    {PyNone, PyStr(<<>>), PyStr(Chars(1))} \cup {PyStr(Chars(n)) : n \in NearLimit}

MessagesValues ==
    {PyNone, PyList(<<>>), PyStr(Chars(MAX_STR_LENGTH + 1))}
        \cup {MessagesOfLen(n) : n \in NearLimit}
        \cup {MessagesWith(p) : p \in SpecialPrefixes}

ResponseValues ==
    {PyNone, PyDict(<<>>), ResponseWithQuotedKey}
        \cup {ResponseOfLen(n) : n \in NearLimit}

ModelValues == {PyStr(Chars(1)), PyStr(Chars(MAX_STR_LENGTH + 1))}

\* all dicts over the payload's fields: a field is absent or holds one of its values
Payloads ==
    LET Pick == [error_str : ErrorStrValues \cup {Absent},
                 messages : MessagesValues \cup {Absent},
                 response : ResponseValues \cup {Absent},
                 model : ModelValues]
    IN { Present(p) : p \in Pick }

\* the longest text, and the largest max_length, _truncate_text is called with
MaxTextLen == 6

\* texts of every length, without and with the marker at their end
Texts ==
    {Chars(n) : n \in 0..MaxTextLen}
        \cup {Chars(n) \o truncated_suffix : n \in 0..MaxTextLen}

TextInit ==
    /\ text_arg \in Texts
    /\ max_length_arg \in 0..MaxTextLen
    /\ text_results = <<>>

\* _truncate_text on the text, then on what the previous call returned
TruncateText ==
    /\ Len(text_results) < MaxTruncateCalls
    /\ text_results' = Append(text_results,
           _truncate_text(IF text_results = <<>> THEN text_arg
                          ELSE text_results[Len(text_results)],
                          max_length_arg))
    /\ UNCHANGED <<text_arg, max_length_arg>>

TruncInit ==
    /\ standard_logging_object \in Payloads
    /\ truncate_input = standard_logging_object
    /\ truncate_calls = 0

Truncate ==
    /\ truncate_calls < MaxTruncateCalls
    /\ standard_logging_object' =
           truncate_standard_logging_payload_content(standard_logging_object)
    /\ truncate_calls' = truncate_calls + 1
    /\ UNCHANGED truncate_input

---------------------------------------------------------------------------
(* CustomLogger: redaction of the logging payload *)

\* a reference to the object heap[i]
Ref(i) == [t |-> "ref", id |-> i]
\* a dict object: its keys mapped to None, strings or references
DictObj(items) == [t |-> "dict", items |-> items]
\* a list object
ListObj(items) == [t |-> "list", v |-> items]
\* booleans and integers
PyBool(b) == [t |-> "bool", v |-> b]
PyInt(n) == [t |-> "int", v |-> n]

s_assistant == <<"a", "s", "s", "i", "s", "t", "a", "n", "t">>

\* LiteLLMCommonStrings.redacted_by_litellm.value
redacted_by_litellm ==
    <<"r", "e", "d", "a", "c", "t", "e", "d", " ", "b", "y", " ", "l", "i", "t",
      "e", "l", "l", "m", ".", " ", "'", "l", "i", "t", "e", "l", "l", "m", ".",
      "t", "u", "r", "n", "_", "o", "f", "f", "_", "m", "e", "s", "s", "a", "g",
      "e", "_", "l", "o", "g", "g", "i", "n", "g", "=", "T", "r", "u", "e", "'">>

\* Message(content=content).model_dump(): the placeholder message
MessageDump(content) ==
    DictObj([content |-> PyStr(content), role |-> PyStr(s_assistant)])

\* ModelResponse(choices=[Choices(message=Message(content=content))]).model_dump()
ModelResponseDump(content) ==
    DictObj([choices |-> <<DictObj([message |-> MessageDump(content)])>>])

\* allocation of a new object: the heap with it appended
Alloc(h, obj) == Append(h, obj)

\* `x = y` where copy(y) was meant: no new object, the same identity
copy_as_alias(h, id) == [heap |-> h, id |-> id]

\* copy.copy(obj) of a dict: a new object with the same keys and values
copy(h, id) == [heap |-> Alloc(h, h[id]), id |-> Len(h) + 1]

\* `if x:` where `x is not None` was meant
is_truthy(h, x) ==
    /\ x # PyNone
    /\ IF x.t = "ref"
       THEN IF h[x.id].t = "list" THEN h[x.id].v # <<>>
            ELSE DOMAIN h[x.id].items # {}
       ELSE x.v # <<>>

\* x is not None
is_not_None(h, x) == x # PyNone

\* obj.get(key) of a dict object
obj_get(h, id, key) == get(h[id].items, key)

\* obj[key] = value on the dict object heap[id]
obj_setitem(h, id, key, value) ==
    [h EXCEPT ![id] = DictObj(setitem(h[id].items, key, value))]

\* lines 575-597: the path taken when message logging is turned off
RedactedCopy(h, mcd) ==
    LET c1 == copy(h, mcd)
        model_call_details_copy == c1.id
        slo == obj_get(c1.heap, mcd, "standard_logging_object")
    IN IF slo = PyNone
       THEN [heap |-> c1.heap, result |-> Ref(model_call_details_copy)]
       ELSE
         LET c2 == copy(c1.heap, slo.id)
             slo_copy == c2.id
             h3 == IF is_not_None(c2.heap, obj_get(c2.heap, slo_copy, "messages"))
                   THEN obj_setitem(
                            Alloc(c2.heap,
                                  ListObj(<<MessageDump(redacted_by_litellm)>>)),
                            slo_copy, "messages", Ref(Len(c2.heap) + 1))
                   ELSE c2.heap
             h4 == IF is_not_None(h3, obj_get(h3, slo_copy, "response"))
                   THEN obj_setitem(
                            Alloc(h3, ModelResponseDump(redacted_by_litellm)),
                            slo_copy, "response", Ref(Len(h3) + 1))
                   ELSE h3
             h5 == obj_setitem(h4, model_call_details_copy,
                               "standard_logging_object", Ref(slo_copy))
         IN [heap |-> h5, result |-> Ref(model_call_details_copy)]

\* the flag test left out: the redacted copy is made whatever the flag
redact_ignoring_the_flag(h, mcd, flag) == RedactedCopy(h, mcd)

redact_standard_logging_payload_from_model_call_details(h, mcd, flag) ==
    IF flag = FALSE
    THEN [heap |-> h, result |-> Ref(mcd)]
    ELSE RedactedCopy(h, mcd)

(* Inputs of the redaction: the caller's heap holds the top-level dict (1),
   the nested standard_logging_object (2), a list of messages (3) and a
   response dict (4). *)

s_model == <<"g", "r", "o", "q">>

RedactHeaps ==
    LET Tops == [model : {PyStr(s_model)},
                 standard_logging_object : {Absent, PyNone, Ref(2)},
                 messages : {Absent, Ref(3)}]
        Nesteds == [id : {PyStr(k_id)},
                    messages : {Absent, PyNone, Ref(3)},
                    response : {Absent, PyNone, Ref(4), PyStr(s_model)}]
        Lists == {ListObj(<<>>), ListObj(<<MessageDump(s_user)>>)}
    IN { <<DictObj(Present(top)), DictObj(Present(nested)), msgs,
           ModelResponseDump(s_model)>> :
           top \in Tops, nested \in Nesteds, msgs \in Lists }

RedactInit ==
    /\ heap \in RedactHeaps
    /\ heap_at_call = heap
    /\ model_call_details = 1
    /\ turn_off_message_logging \in BOOLEAN
    /\ redact_result = PyNone

Redact ==
    /\ redact_result = PyNone
    /\ LET r == redact_standard_logging_payload_from_model_call_details(
                    heap, model_call_details, turn_off_message_logging)
       IN /\ heap' = r.heap
          /\ redact_result' = r.result
    /\ UNCHANGED <<heap_at_call, model_call_details, turn_off_message_logging>>

---------------------------------------------------------------------------
(* GroqChatConfig: messages *)

\* a message: a plain dict (TypedDict) or a pydantic BaseModel, with its fields
Msg(cls, items) == [cls |-> cls, items |-> items]

\* message.model_dump() if isinstance(message, BaseModel) else message
as_dict(message) == message.items

\* `if v:` where `v is not None` was meant: '' is dropped too
value_is_truthy(v) == v # PyNone /\ v.v # <<>>

\* v is not None
value_is_not_None(v) == v # PyNone

\* lines 98-101: ChatCompletionAssistantMessage(role="assistant"), then every
\* key of _message whose value is not None
new_assistant_message(_message) ==
    LET kept == {k \in DOMAIN _message : value_is_not_None(_message[k])}
    IN Msg("dict", [k \in {"role"} \cup kept |->
                       IF k \in kept THEN _message[k] ELSE PyStr(s_assistant)])

\* the body of the loop for one message: what messages[idx] holds afterwards
transformed_message(message) ==
    LET _message == as_dict(message)
    IN IF get(_message, "role") = PyStr(s_assistant)
       THEN new_assistant_message(_message)
       ELSE message

\* OpenAILikeChatConfig._transform_messages: the list as given, directly or
\* as the result of a coroutine
super_transform_messages(msgs, async) ==
    IF async THEN [t |-> "coroutine", v |-> msgs] ELSE [t |-> "list", v |-> msgs]

\* the list after the loop of lines 88-102
_transform_messages_loop(msgs) == [i \in 1..Len(msgs) |-> transformed_message(msgs[i])]

(* Inputs *)

\* the longest message list
MaxMessages == 2

s_hi == <<"h", "i">>

DictMessages ==
    { Msg("dict", Present(p)) :
        p \in [role : {Absent, PyStr(s_user), PyStr(s_assistant)},
               content : {PyStr(s_hi), PyStr(<<>>), PyNone},
               function_call : {Absent, PyNone}] }

ModelMessages ==
    { Msg("BaseModel", [role |-> r, content |-> PyStr(s_hi), function_call |-> PyNone]) :
        r \in {PyStr(s_user), PyStr(s_assistant)} }

MessageLists ==
    UNION { [1..n -> DictMessages \cup ModelMessages] : n \in 0..MaxMessages }

MessagesInit ==
    /\ messages \in MessageLists
    /\ messages_at_call = messages
    /\ is_async \in BOOLEAN
    /\ transform_result = PyNone

\* the call: the loop runs at once, then the base class's result is returned
TransformMessages ==
    /\ transform_result = PyNone
    /\ messages' = _transform_messages_loop(messages)
    /\ transform_result' = super_transform_messages(messages', is_async)
    /\ UNCHANGED <<messages_at_call, is_async>>

\* the caller awaits the coroutine the asynchronous convention returned
AwaitTransformMessages ==
    /\ transform_result.t = "coroutine"
    /\ transform_result' = [t |-> "list", v |-> transform_result.v]
    /\ UNCHANGED <<messages, messages_at_call, is_async>>

---------------------------------------------------------------------------
(* GroqChatConfig: request parameters *)

s_function == <<"f", "u", "n", "c", "t", "i", "o", "n">>
s_json_tool_call ==
    <<"j", "s", "o", "n", "_", "t", "o", "o", "l", "_", "c", "a", "l", "l">>

\* optional_params.get("response_format") is not None
\* a test of the key's presence instead of its value
_should_fake_stream_if_key_present(params) == "response_format" \in DOMAIN params

_should_fake_stream(params) == get(params, "response_format") # PyNone

_create_json_tool_call_for_response_format(json_schema) ==
    DictObj([type |-> PyStr(s_function),
             function |-> DictObj([name |-> PyStr(s_json_tool_call),
                                   parameters |-> json_schema])])

\* OpenAILikeChatConfig.get_supported_openai_params
BaseSupportedParams ==
    {"temperature", "stream", "response_format", "tools", "tool_choice",
     "max_tokens", "max_retries"}

\* the base class's list with "max_retries" removed
get_supported_openai_params(m) == BaseSupportedParams \ {"max_retries"}

\* OpenAILikeChatConfig.map_openai_params: every supported request parameter
\* is written to the output parameters
super_map_openai_params(ndp, op, m, drop) ==
    LET mapped == DOMAIN ndp \cap get_supported_openai_params(m)
    IN [k \in DOMAIN op \cup mapped |-> IF k \in mapped THEN ndp[k] ELSE op[k]]

\* dict.pop(key, None)
pop(d, key) == [k \in DOMAIN d \ {key} |-> d[k]]

KeyError == [t |-> "raise", exc |-> "KeyError"]

\* lines 167-171: the schema the response_format dict is read for
schema_of(rf) ==
    IF "response_schema" \in DOMAIN rf THEN rf["response_schema"]
    ELSE IF "json_schema" \in DOMAIN rf
    THEN IF "schema" \in DOMAIN rf["json_schema"].items
         THEN rf["json_schema"].items["schema"]
         ELSE KeyError
    ELSE PyNone

json_tool_choice ==
    DictObj([type |-> PyStr(s_function),
             function |-> DictObj([name |-> PyStr(s_json_tool_call)])])

\* the call: the request parameters and output parameters as it leaves them,
\* and what it returns or raises
map_openai_params(ndp, op, m, drop) ==
    LET _response_format == get(ndp, "response_format")
        op1 == IF _should_fake_stream(ndp)
               THEN setitem(op, "fake_stream", PyBool(TRUE)) ELSE op
        json_schema == IF _response_format # PyNone /\ _response_format.t = "dict"
                       THEN schema_of(_response_format.items) ELSE PyNone
    IN IF json_schema = KeyError
       THEN [ndp |-> ndp, op |-> op1, result |-> KeyError]
       ELSE LET convert == json_schema # PyNone
                _tool == _create_json_tool_call_for_response_format(json_schema)
                op2 == IF convert
                       THEN setitem(setitem(setitem(op1,
                                "tools", PyList(<<_tool>>)),
                                "tool_choice", json_tool_choice),
                                "json_mode", PyBool(TRUE))
                       ELSE op1
                ndp2 == IF convert THEN pop(ndp, "response_format") ELSE ndp
            IN [ndp |-> ndp2, op |-> op2,
                result |-> DictObj(super_map_openai_params(ndp2, op2, m, drop))]

(* Inputs *)

k_type == <<"t", "y", "p", "e">>
s_object == <<"o", "b", "j", "e", "c", "t">>
s_array == <<"a", "r", "r", "a", "y">>
s_json_object == <<"j", "s", "o", "n", "_", "o", "b", "j", "e", "c", "t">>

\* two JSON schemas: {'type': 'object'} and {'type': 'array'}
SchemaObject == PyDict(<< <<k_type, PyStr(s_object)>> >>)
SchemaArray == PyDict(<< <<k_type, PyStr(s_array)>> >>)

\* response_format: absent, None, a pydantic class, or a dict with or without
\* response_schema and json_schema (whose "schema" may be missing or None)
ResponseFormats ==
    {Absent, PyNone, [t |-> "type"]} \cup
    { DictObj(Present(p)) :
        p \in [type : {PyStr(s_json_object)},
               response_schema : {Absent, PyNone, SchemaArray},
               json_schema : {Absent, DictObj(<<>>), DictObj([schema |-> PyNone]),
                              DictObj([schema |-> SchemaObject])}] }

\* the largest integer a parameter takes
MaxParamValue == 1

RequestParams ==
    { Present(p) :
        p \in [response_format : ResponseFormats,
               temperature : {Absent} \cup {PyInt(n) : n \in 1..MaxParamValue},
               max_retries : {Absent, PyInt(1)},
               stream : {Absent, PyBool(TRUE)}] }

s_model_a == <<"l", "l", "a", "m", "a">>
s_model_b == <<"q", "w", "e", "n">>

ParamsInit ==
    /\ non_default_params \in RequestParams
    /\ non_default_params_at_call = non_default_params
    /\ optional_params \in {<<>>, [max_tokens |-> PyInt(1)]}
    /\ model \in {s_model_a, s_model_b}
    /\ drop_params \in BOOLEAN
    /\ map_result = PyNone

MapOpenAIParams ==
    /\ map_result = PyNone
    /\ LET r == map_openai_params(non_default_params, optional_params,
                                  model, drop_params)
       IN /\ non_default_params' = r.ndp
          /\ optional_params' = r.op
          /\ map_result' = r.result
    /\ UNCHANGED <<non_default_params_at_call, model, drop_params>>

---------------------------------------------------------------------------
(* GroqChatConfig: response *)

s_auto == <<"a", "u", "t", "o">>
s_default == <<"d", "e", "f", "a", "u", "l", "t">>
s_flex == <<"f", "l", "e", "x">>

\* the None test alone: any string the vendor sends is passed on
_map_groq_service_tier_any_string(original_service_tier) ==
    IF original_service_tier = PyNone THEN PyStr(s_auto)
    ELSE original_service_tier

_map_groq_service_tier(original_service_tier) ==
    IF original_service_tier = PyNone THEN PyStr(s_auto)
    ELSE IF original_service_tier \notin {PyStr(s_auto), PyStr(s_default), PyStr(s_flex)}
    THEN PyStr(s_auto)
    ELSE original_service_tier

\* lines 227-229, on the response the base class's transform_response returned
transform_response(response) ==
    [response EXCEPT !.service_tier = _map_groq_service_tier(response.service_tier)]

(* Inputs *)

\* the longest service tier made of the letters of "auto"
MaxTierLen == 4

s_on_demand == <<"o", "n", "_", "d", "e", "m", "a", "n", "d">>

ServiceTiers ==
    {PyNone, PyStr(s_default), PyStr(s_flex), PyStr(s_on_demand)} \cup
    { PyStr(w) : w \in UNION { [1..n -> {"a", "u", "t", "o"}] : n \in 0..MaxTierLen } }

ResponseInit ==
    /\ service_tier_received \in ServiceTiers
    /\ model_response = [id |-> PyStr(k_id), service_tier |-> service_tier_received]
    /\ response_transformed = FALSE

TransformResponse ==
    /\ ~response_transformed
    /\ model_response' = transform_response(model_response)
    /\ response_transformed' = TRUE
    /\ UNCHANGED service_tier_received

---------------------------------------------------------------------------
(* GroqChatConfig: connection *)

s_default_api_base ==
    <<"h", "t", "t", "p", "s", ":", "/", "/", "a", "p", "i", ".", "g", "r", "o",
      "q", ".", "c", "o", "m", "/", "o", "p", "e", "n", "a", "i", "/", "v", "1">>

\* get_secret_str(name): the stored value, None when there is none
get_secret_str(store, name) == store[name]

\* the secret consulted before the argument
py_or_swapped(a, b) == IF bool(b) THEN b ELSE a

\* a or b: a when it is truthy, else b
py_or(a, b) == IF bool(a) THEN a ELSE b

_get_openai_compatible_provider_info(base, key, store) ==
    LET base1 == py_or(py_or(base, get_secret_str(store, "GROQ_API_BASE")),
                       PyStr(s_default_api_base))
        dynamic_api_key == py_or(key, get_secret_str(store, "GROQ_API_KEY"))
    IN <<base1, dynamic_api_key>>

(* Inputs *)

\* how many distinct non-empty strings an argument or a secret may be
MaxNames == 2

\* None, the empty string and some non-empty strings
OptionalStrings(tag) ==
    {PyNone, PyStr(<<>>)} \cup { PyStr(<<tag>> \o Chars(n)) : n \in 1..MaxNames }

ProviderInit ==
    /\ api_base \in OptionalStrings("b")
    /\ api_key \in OptionalStrings("k")
    /\ secrets \in [GROQ_API_BASE : OptionalStrings("B"), GROQ_API_KEY : OptionalStrings("K")]
    /\ provider_info = PyNone

GetProviderInfo ==
    /\ provider_info = PyNone
    /\ provider_info' = _get_openai_compatible_provider_info(api_base, api_key, secrets)
    /\ UNCHANGED <<api_base, api_key, secrets>>

---------------------------------------------------------------------------
(* CustomLogger: the logging dispatch helpers *)

\* exception classes a callback may raise; the last two derive from
\* BaseException only
ExceptionClasses == {"ValueError", "RuntimeError"}
BaseExceptionOnlyClasses == {"KeyboardInterrupt", "CancelledError"}

\* `except ValueError:` where `except Exception:` was meant
except_ValueError_only(cls) == cls = "ValueError"

\* except Exception: the classes the handler of the helpers catches
except_Exception(cls) == cls \in ExceptionClasses

Helpers == {"log_event", "async_log_event", "log_input_event", "async_log_input_event"}

\* the helpers declared with "async def", which await the callback
AsyncHelpers == {"async_log_event", "async_log_input_event"}

s_pre_api_call == <<"p", "r", "e", "_", "a", "p", "i", "_", "c", "a", "l", "l">>
s_post_api_call == <<"p", "o", "s", "t", "_", "a", "p", "i", "_", "c", "a", "l", "l">>

\* the assignments to kwargs at the top of the helper's try block
kwargs_written(h, kw, m, msgs) ==
    IF h \in {"log_input_event", "async_log_input_event"}
    THEN setitem(setitem(setitem(kw, "model", m), "messages", msgs),
                 "log_event_type", PyStr(s_pre_api_call))
    ELSE setitem(kw, "log_event_type", PyStr(s_post_api_call))

\* the rest of helper h once the callback, which behaves as `does` ("returns"
\* or the class it raises), has finished: what is printed, and the exception
\* that leaves the helper (None: it returns)
after_callback(h, does) ==
    IF does = "returns"
    THEN [printed |-> IF h \in {"log_input_event", "async_log_input_event"}
                      THEN <<"model call details">> ELSE <<>>,
          raises |-> PyNone]
    ELSE IF except_Exception(does)
    THEN [printed |-> <<"Custom Logger Error">>, raises |-> PyNone]
    ELSE [printed |-> <<>>, raises |-> [t |-> "raise", exc |-> does]]

\* one call of a helper h that does not await, with a callback that behaves
\* as `does`: kwargs afterwards, the callback calls made, what was printed,
\* and the exception that leaves the helper
dispatch(h, kw, m, msgs, does) ==
    LET after == after_callback(h, does)
    IN [kwargs |-> kwargs_written(h, kw, m, msgs), calls |-> 1,
        printed |-> after.printed, raises |-> after.raises]

(* Inputs *)

\* the most plugins registered
MaxPlugins == 3

Behaviours == {"returns"} \cup ExceptionClasses \cup BaseExceptionOnlyClasses

DispatchInit ==
    /\ plugins \in UNION { [1..n -> Behaviours] : n \in 0..MaxPlugins }
    /\ helper \in Helpers
    /\ kwargs \in {<<>>, [model |-> PyStr(s_model_b)]}
    /\ kwargs_at_call = kwargs
    /\ dispatched = 0
    /\ attempts = [i \in 1..Len(plugins) |-> 0]
    /\ verbose_log = <<>>
    /\ escaped = PyNone
    /\ awaited = 0

\* the registry calls a helper that does not await for the next plugin: the
\* helper runs to its end; an exception that leaves the helper ends the
\* sequence
Dispatch ==
    /\ helper \notin AsyncHelpers
    /\ escaped = PyNone
    /\ dispatched < Len(plugins)
    /\ LET i == dispatched + 1
           r == dispatch(helper, kwargs, PyStr(s_model_a), PyList(<<>>), plugins[i])
       IN /\ kwargs' = r.kwargs
          /\ attempts' = [attempts EXCEPT ![i] = @ + r.calls]
          /\ verbose_log' = verbose_log \o
                 [j \in 1..Len(r.printed) |-> [plugin |-> i, text |-> r.printed[j]]]
          /\ escaped' = r.raises
          /\ dispatched' = i
    /\ UNCHANGED <<plugins, helper, kwargs_at_call, awaited>>

\* the registry awaits an async helper for the next plugin: the helper writes
\* kwargs, calls the callback and is suspended at `await callback_func(...)`
DispatchAwait ==
    /\ helper \in AsyncHelpers
    /\ escaped = PyNone
    /\ awaited = 0
    /\ dispatched < Len(plugins)
    /\ LET i == dispatched + 1
       IN /\ kwargs' = kwargs_written(helper, kwargs, PyStr(s_model_a), PyList(<<>>))
          /\ attempts' = [attempts EXCEPT ![i] = @ + 1]
          /\ awaited' = i
    /\ UNCHANGED <<plugins, helper, kwargs_at_call, dispatched, verbose_log, escaped>>

\* the callback finishes and the helper resumes after the await: it prints, or
\* its except clause does, or the exception leaves it
DispatchResume ==
    /\ awaited # 0
    /\ LET after == after_callback(helper, plugins[awaited])
       IN /\ verbose_log' = verbose_log \o
                 [j \in 1..Len(after.printed) |->
                     [plugin |-> awaited, text |-> after.printed[j]]]
          /\ escaped' = after.raises
    /\ dispatched' = awaited
    /\ awaited' = 0
    /\ UNCHANGED <<plugins, helper, kwargs, kwargs_at_call, attempts>>

---------------------------------------------------------------------------
(* CustomLogger: the streaming iterator hook *)

\* what the upstream producer answers when asked for its next chunk after n
anext(up, up_end, n) ==
    IF n < Len(up) THEN [t |-> "item", v |-> up[n + 1]]
    ELSE IF up_end = "stop" THEN [t |-> "StopAsyncIteration"]
    ELSE [t |-> "raise"]

\* a loop body wrapped in try/except: the producer's error ends the stream quietly
hook_at_for_swallowing(answer) ==
    IF answer.t = "item"
    THEN [pc |-> "yield", item |-> answer.v, ends |-> "iterating"]
    ELSE [pc |-> "done", item |-> PyNone, ends |-> "stop"]

\* `async for item in response`: the generator takes the producer's answer; a
\* chunk goes to the loop body, the end of the producer ends the generator,
\* an error of the producer leaves the generator as it is
hook_at_for(answer) ==
    IF answer.t = "item"
    THEN [pc |-> "yield", item |-> answer.v, ends |-> "iterating"]
    ELSE IF answer.t = "StopAsyncIteration"
    THEN [pc |-> "done", item |-> PyNone, ends |-> "stop"]
    ELSE [pc |-> "done", item |-> PyNone, ends |-> "error"]

(* Inputs *)

\* the most chunks the producer yields
MaxChunks == 3

Chunk(i) == [t |-> "chunk", id |-> i]
Chunks == {Chunk(1), Chunk(2), Chunk(3)}

StreamInit ==
    /\ upstream \in UNION { [1..n -> Chunks] : n \in 0..MaxChunks }
    /\ upstream_end \in {"stop", "error"}
    /\ pulled = 0
    /\ hook_pc = "for"
    /\ item = PyNone
    /\ received = <<>>
    /\ consumer_end = "iterating"

\* the consumer asks for the next chunk and the generator asks the producer
HookFor ==
    /\ hook_pc = "for"
    /\ LET answer == anext(upstream, upstream_end, pulled)
           next == hook_at_for(answer)
       IN /\ hook_pc' = next.pc
          /\ item' = next.item
          /\ consumer_end' = next.ends
          /\ pulled' = IF answer.t = "item" THEN pulled + 1 ELSE pulled
    /\ UNCHANGED <<upstream, upstream_end, received>>

\* `yield item`: the consumer receives the chunk
HookYield ==
    /\ hook_pc = "yield"
    /\ received' = Append(received, item)
    /\ hook_pc' = "for"
    /\ UNCHANGED <<upstream, upstream_end, pulled, item, consumer_end>>

---------------------------------------------------------------------------
(* CustomLogger: the default hooks *)

\* an argument object, known by its identity
Obj(p, i) == [t |-> "obj", id |-> <<p, i>>]
PyTuple(items) == [t |-> "tuple", v |-> items]

Pending == [t |-> "pending"]
Coroutine == [t |-> "coroutine"]
Return(value) == [t |-> "return", v |-> value]
Raise(exc, msg) == [t |-> "raise", exc |-> exc, msg |-> msg]

\* the hooks declared with "def"
SyncHooks ==
    {"log_pre_api_call", "log_post_api_call", "log_stream_event",
     "log_success_event", "log_failure_event", "get_chat_completion_prompt",
     "pre_call_check", "translate_completion_input_params",
     "translate_completion_output_params",
     "translate_completion_output_params_streaming", "logging_hook"}

\* the hooks declared with "async def"
AsyncHooks ==
    {"async_log_stream_event", "async_log_pre_api_call",
     "async_log_success_event", "async_log_failure_event",
     "async_get_chat_completion_prompt", "async_pre_routing_hook",
     "async_filter_deployments", "async_pre_call_deployment_hook",
     "async_pre_call_check", "async_post_call_success_deployment_hook",
     "log_model_group_rate_limit_error", "log_success_fallback_event",
     "log_failure_fallback_event", "async_dataset_hook", "async_pre_call_hook",
     "async_post_call_failure_hook", "async_post_call_success_hook",
     "async_logging_hook", "async_moderation_hook",
     "async_post_call_streaming_hook", "async_pre_mcp_tool_call_hook",
     "async_during_mcp_tool_call_hook", "async_post_mcp_tool_call_hook"}

Hooks == SyncHooks \cup AsyncHooks

\* the parameters of each hook that have no default value
HookParams(h) ==
    CASE h \in {"log_pre_api_call", "async_log_pre_api_call"} ->
           {"model", "messages", "kwargs"}
      [] h \in {"log_post_api_call", "log_stream_event", "log_success_event",
                "log_failure_event", "async_log_stream_event",
                "async_log_success_event", "async_log_failure_event",
                "async_post_mcp_tool_call_hook"} ->
           {"kwargs", "response_obj", "start_time", "end_time"}
      [] h = "get_chat_completion_prompt" ->
           {"model", "messages", "non_default_params", "prompt_id",
            "prompt_variables", "dynamic_callback_params"}
      [] h = "async_get_chat_completion_prompt" ->
           {"model", "messages", "non_default_params", "prompt_id",
            "prompt_variables", "dynamic_callback_params", "litellm_logging_obj"}
      [] h = "async_pre_routing_hook" -> {"model", "request_kwargs"}
      [] h = "async_filter_deployments" ->
           {"model", "healthy_deployments", "messages"}
      [] h = "async_pre_call_deployment_hook" -> {"kwargs", "call_type"}
      [] h = "async_pre_call_check" -> {"deployment", "parent_otel_span"}
      [] h = "pre_call_check" -> {"deployment"}
      [] h = "async_post_call_success_deployment_hook" ->
           {"request_data", "response", "call_type"}
      [] h = "log_model_group_rate_limit_error" ->
           {"exception", "original_model_group", "kwargs"}
      [] h \in {"log_success_fallback_event", "log_failure_fallback_event"} ->
           {"original_model_group", "kwargs", "original_exception"}
      [] h = "translate_completion_input_params" -> {"kwargs"}
      [] h = "translate_completion_output_params" -> {"response"}
      [] h = "translate_completion_output_params_streaming" ->
           {"completion_stream"}
      [] h = "async_dataset_hook" -> {"logged_item", "standard_logging_payload"}
      [] h = "async_pre_call_hook" ->
           {"user_api_key_dict", "cache", "data", "call_type"}
      [] h = "async_post_call_failure_hook" ->
           {"request_data", "original_exception", "user_api_key_dict"}
      [] h = "async_post_call_success_hook" ->
           {"data", "user_api_key_dict", "response"}
      [] h \in {"logging_hook", "async_logging_hook"} ->
           {"kwargs", "result", "call_type"}
      [] h = "async_moderation_hook" ->
           {"data", "user_api_key_dict", "call_type"}
      [] h = "async_post_call_streaming_hook" ->
           {"user_api_key_dict", "response"}
      [] h \in {"async_pre_mcp_tool_call_hook",
                "async_during_mcp_tool_call_hook"} ->
           {"kwargs", "request_obj", "start_time", "end_time"}

\* a body that is "pass" or "return None"
pass == Return(PyNone)

\* a dataset hook that declines the item instead of raising
async_dataset_hook_returning_None(logged_item, standard_logging_payload) ==
    Return(PyNone)

async_dataset_hook(logged_item, standard_logging_payload) ==
    Raise("NotImplementedError", "async_dataset_hook not implemented")

get_chat_completion_prompt(model_, messages_, non_default_params_) ==
    Return(PyTuple(<<model_, messages_, non_default_params_>>))

async_filter_deployments(healthy_deployments) == Return(healthy_deployments)

\* a logging hook that gives back the pair the other way round
logging_hook_swapped(kwargs_, result) == Return(PyTuple(<<result, kwargs_>>))

logging_hook(kwargs_, result) == Return(PyTuple(<<kwargs_, result>>))

\* the body of hook h of the base class, run on the arguments a
hook_body(h, a) ==
    CASE h \in {"get_chat_completion_prompt", "async_get_chat_completion_prompt"} ->
           get_chat_completion_prompt(a["model"], a["messages"], a["non_default_params"])
      [] h = "async_filter_deployments" ->
           async_filter_deployments(a["healthy_deployments"])
      [] h \in {"logging_hook", "async_logging_hook"} ->
           logging_hook(a["kwargs"], a["result"])
      [] h = "async_dataset_hook" ->
           async_dataset_hook(a["logged_item"], a["standard_logging_payload"])
      [] OTHER -> pass

(* Inputs *)

\* the parameters that are given one of two objects; the others are given one
VariedParams ==
    {"model", "messages", "non_default_params", "healthy_deployments",
     "kwargs", "result", "logged_item", "response_obj"}

\* the parameters that may be given None
OptionalParams == {"standard_logging_payload", "messages", "prompt_id"}

\* the choices for parameter p: an object, a second object, None
ArgChoices(p) ==
    {1} \cup (IF p \in VariedParams THEN {2} ELSE {})
        \cup (IF p \in OptionalParams THEN {3} ELSE {})

ArgValue(p, c) == IF c = 3 THEN PyNone ELSE Obj(p, c)

HooksInit ==
    /\ hook \in Hooks
    /\ \E c \in [HookParams(hook) -> 1..3] :
         /\ \A p \in HookParams(hook) : c[p] \in ArgChoices(p)
         /\ hook_args = [p \in HookParams(hook) |-> ArgValue(p, c[p])]
    /\ hook_outcome = Pending

\* the call: an "async def" hook gives a coroutine, a "def" hook runs its body
CallHook ==
    /\ hook_outcome = Pending
    /\ hook_outcome' = IF hook \in AsyncHooks THEN Coroutine
                       ELSE hook_body(hook, hook_args)
    /\ UNCHANGED <<hook, hook_args>>

\* awaiting the coroutine runs the body
AwaitHook ==
    /\ hook_outcome = Coroutine
    /\ hook_outcome' = hook_body(hook, hook_args)
    /\ UNCHANGED <<hook, hook_args>>

---------------------------------------------------------------------------
(* GroqChatConfig: construction *)

\* the parameters of __init__, each declared on the class with the value None
ConfigParams ==
    {"frequency_penalty", "function_call", "functions", "logit_bias",
     "max_tokens", "n", "presence_penalty", "stop", "temperature", "top_p",
     "response_format", "tools", "tool_choice"}

\* the class as the class statement leaves it
class_defaults == [k \in ConfigParams |-> PyNone]

\* setattr(target, key, value)
setattr(target, key, value) == [target EXCEPT ![key] = value]

\* the for loop of __init__ over the keys of locals_ other than "self":
\* attrs is the attribute dict of self.__class__
RECURSIVE init_loop(_, _, _)
init_loop(attrs, locals_, keys) ==
    IF keys = {} THEN attrs
    ELSE LET key == CHOOSE k \in keys : TRUE
             value == locals_[key]
         IN  init_loop(IF value # PyNone THEN setattr(attrs, key, value) ELSE attrs,
                       locals_, keys \ {key})

\* getattr(instance, key): the instance's own attribute, else the class's
getattr(own, attrs, key) == IF key \in DOMAIN own THEN own[key] ELSE attrs[key]

(* Inputs *)

\* how many instances are constructed
MaxInstances == 2

\* the parameters given a value in some construction; the others are left out
GivenParams == {"frequency_penalty", "max_tokens", "temperature"}

ConfigValues == {PyNone} \cup {PyInt(n) : n \in 0..MaxParamValue}

ConfigInit ==
    /\ class_attrs = class_defaults
    /\ instances = <<>>

\* GroqChatConfig(**given): __init__ sets nothing on self
Construct ==
    /\ Len(instances) < MaxInstances
    /\ \E given \in [GivenParams -> ConfigValues] :
         LET locals_ == [k \in ConfigParams |->
                           IF k \in GivenParams THEN given[k] ELSE PyNone]
         IN  /\ class_attrs' = init_loop(class_attrs, locals_, ConfigParams)
             /\ instances' = Append(instances, [args |-> locals_, own |-> <<>>])

---------------------------------------------------------------------------
(* Specifications: one per group of operations; the variables of the other
   groups are parked. *)

MessagesIdle ==
    /\ messages = <<>>
    /\ messages_at_call = <<>>
    /\ is_async = FALSE
    /\ transform_result = PyNone

ParamsIdle ==
    /\ non_default_params = <<>>
    /\ non_default_params_at_call = <<>>
    /\ optional_params = <<>>
    /\ model = <<>>
    /\ drop_params = FALSE
    /\ map_result = PyNone

ResponseIdle ==
    /\ model_response = <<>>
    /\ service_tier_received = PyNone
    /\ response_transformed = FALSE

ProviderIdle ==
    /\ api_base = PyNone
    /\ api_key = PyNone
    /\ secrets = <<>>
    /\ provider_info = PyNone

DispatchIdle ==
    /\ plugins = <<>>
    /\ helper = "log_event"
    /\ kwargs = <<>>
    /\ kwargs_at_call = <<>>
    /\ dispatched = 0
    /\ attempts = <<>>
    /\ verbose_log = <<>>
    /\ escaped = PyNone
    /\ awaited = 0

StreamIdle ==
    /\ upstream = <<>>
    /\ upstream_end = "stop"
    /\ pulled = 0
    /\ hook_pc = "done"
    /\ item = PyNone
    /\ received = <<>>
    /\ consumer_end = "iterating"

HooksIdle ==
    /\ hook = ""
    /\ hook_args = <<>>
    /\ hook_outcome = PyNone

ConfigIdle ==
    /\ class_attrs = <<>>
    /\ instances = <<>>

\* the empty text, truncated as often as a text is
TextIdle ==
    /\ text_arg = <<>>
    /\ max_length_arg = 0
    /\ text_results = [i \in 1..MaxTruncateCalls |-> <<>>]

\* the empty payload, truncated as often as a payload is
TruncIdle ==
    /\ standard_logging_object = <<>>
    /\ truncate_input = <<>>
    /\ truncate_calls = MaxTruncateCalls

RedactIdle ==
    /\ heap = <<>>
    /\ heap_at_call = <<>>
    /\ model_call_details = 0
    /\ turn_off_message_logging = FALSE
    /\ redact_result = PyNone

\* every group of variables but g's is parked
Parked(g) ==
    /\ IF g = "truncate" THEN TRUE ELSE TruncIdle
    /\ IF g = "redact" THEN TRUE ELSE RedactIdle
    /\ IF g = "messages" THEN TRUE ELSE MessagesIdle
    /\ IF g = "params" THEN TRUE ELSE ParamsIdle
    /\ IF g = "response" THEN TRUE ELSE ResponseIdle
    /\ IF g = "provider" THEN TRUE ELSE ProviderIdle
    /\ IF g = "dispatch" THEN TRUE ELSE DispatchIdle
    /\ IF g = "stream" THEN TRUE ELSE StreamIdle
    /\ IF g = "hooks" THEN TRUE ELSE HooksIdle
    /\ IF g = "config" THEN TRUE ELSE ConfigIdle
    /\ IF g = "text" THEN TRUE ELSE TextIdle

\* every group of variables but g's stays as it is
Kept(g) ==
    /\ IF g = "truncate" THEN TRUE ELSE UNCHANGED truncVars
    /\ IF g = "redact" THEN TRUE ELSE UNCHANGED redactVars
    /\ IF g = "messages" THEN TRUE ELSE UNCHANGED messagesVars
    /\ IF g = "params" THEN TRUE ELSE UNCHANGED paramsVars
    /\ IF g = "response" THEN TRUE ELSE UNCHANGED responseVars
    /\ IF g = "provider" THEN TRUE ELSE UNCHANGED providerVars
    /\ IF g = "dispatch" THEN TRUE ELSE UNCHANGED dispatchVars
    /\ IF g = "stream" THEN TRUE ELSE UNCHANGED streamVars
    /\ IF g = "hooks" THEN TRUE ELSE UNCHANGED hooksVars
    /\ IF g = "config" THEN TRUE ELSE UNCHANGED configVars
    /\ IF g = "text" THEN TRUE ELSE UNCHANGED textVars

InitTruncate == TruncInit /\ Parked("truncate")
NextTruncate == Truncate /\ Kept("truncate")
SpecTruncate == InitTruncate /\ [][NextTruncate]_vars

InitRedact == RedactInit /\ Parked("redact")
NextRedact == Redact /\ Kept("redact")
SpecRedact == InitRedact /\ [][NextRedact]_vars

InitMessages == MessagesInit /\ Parked("messages")
NextMessages ==
    \/ TransformMessages /\ Kept("messages")
    \/ AwaitTransformMessages /\ Kept("messages")
SpecMessages == InitMessages /\ [][NextMessages]_vars

InitParams == ParamsInit /\ Parked("params")
NextParams == MapOpenAIParams /\ Kept("params")
SpecParams == InitParams /\ [][NextParams]_vars

InitResponse == ResponseInit /\ Parked("response")
NextResponse == TransformResponse /\ Kept("response")
SpecResponse == InitResponse /\ [][NextResponse]_vars

InitProvider == ProviderInit /\ Parked("provider")
NextProvider == GetProviderInfo /\ Kept("provider")
SpecProvider == InitProvider /\ [][NextProvider]_vars

InitDispatch == DispatchInit /\ Parked("dispatch")
NextDispatch ==
    \/ Dispatch /\ Kept("dispatch")
    \/ DispatchAwait /\ Kept("dispatch")
    \/ DispatchResume /\ Kept("dispatch")
SpecDispatch == InitDispatch /\ [][NextDispatch]_vars

InitStream == StreamInit /\ Parked("stream")
NextStream ==
    \/ HookFor /\ Kept("stream")
    \/ HookYield /\ Kept("stream")
SpecStream == InitStream /\ [][NextStream]_vars

\* the event loop keeps running the consumer and the generator while either
\* has a step to take
SpecStreamFair == SpecStream /\ WF_vars(NextStream)

InitHooks == HooksInit /\ Parked("hooks")
NextHooks ==
    \/ CallHook /\ Kept("hooks")
    \/ AwaitHook /\ Kept("hooks")
SpecHooks == InitHooks /\ [][NextHooks]_vars

InitConfig == ConfigInit /\ Parked("config")
NextConfig == Construct /\ Kept("config")
SpecConfig == InitConfig /\ [][NextConfig]_vars

\* the three operations that are handed an object of the caller's, each
\* called on its own arguments
InitCallers == InitMessages \/ InitParams \/ InitDispatch
NextCallers == NextMessages \/ NextParams \/ NextDispatch
SpecCallers == InitCallers /\ [][NextCallers]_vars

InitText == TextInit /\ Parked("text")
NextText == TruncateText /\ Kept("text")

\* repeated truncation, of a text and of a payload
InitRepeat == InitText \/ InitTruncate
NextRepeat == NextText \/ NextTruncate
SpecRepeat == InitRepeat /\ [][NextRepeat]_vars

---------------------------------------------------------------------------
(* Claims *)


\* a value the claim calls absent-or-empty: None, '', [] or {}
IsEmptyValue(x) == x.t = "None" \/ x.v = <<>>

\* C1: after one call of truncate_standard_logging_payload_content the payload
\* has the same keys; a field among error_str, messages, response that was
\* non-empty with len(str(value)) > 10,000 holds the first 10,000 characters
\* of str(value) followed by the fixed suffix; every other field (at or under
\* the limit, empty, or not one of the three) holds its original value, a
\* list or dict included.
C1_TruncateContract ==
    truncate_calls = 1 =>
        /\ DOMAIN standard_logging_object = DOMAIN truncate_input
        /\ \A f \in DOMAIN truncate_input :
              LET value == truncate_input[f]
                  text == str(value)
              IN IF /\ f \in {"error_str", "messages", "response"}
                    /\ ~IsEmptyValue(value)
                    /\ Len(text) > MAX_STR_LENGTH
                 THEN standard_logging_object[f] =
                        PyStr(SubSeq(text, 1, MAX_STR_LENGTH) \o truncated_suffix)
                 ELSE standard_logging_object[f] = value

\* a list of messages rendering over the limit was cut to a string, next to a
\* response dict rendering to exactly the limit
C1_Witness ==
    /\ truncate_calls = 1
    /\ {"messages", "response"} \subseteq DOMAIN truncate_input
    /\ truncate_input["messages"].t = "list"
    /\ Len(str(truncate_input["messages"])) > MAX_STR_LENGTH
    /\ standard_logging_object["messages"].t = "str"
    /\ Len(standard_logging_object["messages"].v)
          = MAX_STR_LENGTH + Len(truncated_suffix)
    /\ truncate_input["response"].t = "dict"
    /\ Len(str(truncate_input["response"])) = MAX_STR_LENGTH


redact_called == redact_result # PyNone

\* C2: with turn_off_message_logging false, redact returns the very mapping it
\* was given, and no object of the caller (top-level mapping, nested payload,
\* messages, response) has a key added, removed or changed.
C2_FlagOffReturnsInput ==
    (redact_called /\ turn_off_message_logging = FALSE) =>
        /\ redact_result = Ref(model_call_details)
        /\ heap = heap_at_call

\* the flag is off and the input carries a nested payload with messages and response
C2_Witness ==
    /\ redact_called
    /\ turn_off_message_logging = FALSE
    /\ obj_get(heap_at_call, 1, "standard_logging_object") = Ref(2)
    /\ obj_get(heap_at_call, 2, "messages") = Ref(3)
    /\ obj_get(heap_at_call, 2, "response") = Ref(4)

\* C3: with turn_off_message_logging true, every object that existed before
\* the call is as it was (the top-level mapping keeps its keys and values, its
\* standard_logging_object entry still refers to the original nested object,
\* which still holds its messages and response), and the returned mapping is
\* a new object.
C3_InputNotMutated ==
    (redact_called /\ turn_off_message_logging = TRUE) =>
        /\ \A i \in 1..Len(heap_at_call) : heap[i] = heap_at_call[i]
        /\ redact_result.t = "ref"
        /\ redact_result.id > Len(heap_at_call)

\* messages and response were redacted in the returned copy, which therefore
\* differs from the caller's mapping
C3_Witness ==
    /\ redact_called
    /\ turn_off_message_logging = TRUE
    /\ obj_get(heap_at_call, 1, "standard_logging_object") = Ref(2)
    /\ obj_get(heap_at_call, 2, "messages") = Ref(3)
    /\ heap_at_call[3].v # <<>>
    /\ obj_get(heap_at_call, 2, "response") = Ref(4)
    /\ heap[redact_result.id] # heap[model_call_details]
    /\ obj_get(heap, redact_result.id, "standard_logging_object") # Ref(2)

\* the value v of the result is a list of exactly one placeholder message
IsRedactedMessages(h, v) ==
    /\ v.t = "ref"
    /\ h[v.id].t = "list"
    /\ Len(h[v.id].v) = 1
    /\ h[v.id].v[1].items["content"] = PyStr(redacted_by_litellm)

\* the value v of the result is a response with one choice whose message
\* content is the placeholder
IsRedactedResponse(h, v) ==
    /\ v.t = "ref"
    /\ h[v.id].t = "dict"
    /\ "choices" \in DOMAIN h[v.id].items
    /\ Len(h[v.id].items["choices"]) = 1
    /\ h[v.id].items["choices"][1].items["message"].items["content"]
         = PyStr(redacted_by_litellm)

\* C4: with turn_off_message_logging true the returned mapping has the keys of
\* the input with the same values, except standard_logging_object, which (when
\* the input has one) refers to a mapping with the keys of the original nested
\* payload and the same values except messages and response: each of these,
\* when non-null, is replaced by the placeholder message list / the placeholder
\* response, and is kept when null.  Without a standard_logging_object the
\* result equals the input.
C4_RedactedCopy ==
    (redact_called /\ turn_off_message_logging = TRUE) =>
        LET top0 == heap_at_call[model_call_details].items
            top1 == heap[redact_result.id].items
            slo0 == get(top0, "standard_logging_object")
        IN /\ DOMAIN top1 = DOMAIN top0
           /\ \A k \in DOMAIN top0 \ {"standard_logging_object"} : top1[k] = top0[k]
           /\ IF slo0 = PyNone
              THEN top1 = top0
              ELSE LET n0 == heap_at_call[slo0.id].items
                       n1 == heap[top1["standard_logging_object"].id].items
                   IN /\ DOMAIN n1 = DOMAIN n0
                      /\ \A k \in DOMAIN n0 \ {"messages", "response"} : n1[k] = n0[k]
                      /\ \A k \in DOMAIN n0 \cap {"messages"} :
                            IF n0[k] # PyNone THEN IsRedactedMessages(heap, n1[k])
                            ELSE n1[k] = n0[k]
                      /\ \A k \in DOMAIN n0 \cap {"response"} :
                            IF n0[k] # PyNone THEN IsRedactedResponse(heap, n1[k])
                            ELSE n1[k] = n0[k]

\* an empty (but non-null) message list and a response were both replaced
C4_Witness ==
    /\ redact_called
    /\ turn_off_message_logging = TRUE
    /\ obj_get(heap_at_call, 1, "standard_logging_object") = Ref(2)
    /\ obj_get(heap_at_call, 2, "messages") = Ref(3)
    /\ heap_at_call[3].v = <<>>
    /\ obj_get(heap_at_call, 2, "response") # PyNone
    /\ IsRedactedMessages(heap, obj_get(heap,
            obj_get(heap, redact_result.id, "standard_logging_object").id, "messages"))

\* C5: whichever calling convention is used, the list _transform_messages
\* yields has as many messages as the input, in the same order; a message
\* whose role is 'assistant' has become a message with exactly those keys of
\* the original whose value is not None, with the same values; a message with
\* any other role (or none) is the original, its None-valued keys included.
C5_TransformMessages ==
    transform_result.t = "list" =>
        /\ Len(transform_result.v) = Len(messages_at_call)
        /\ \A i \in 1..Len(messages_at_call) :
              LET original == messages_at_call[i]
                  out == transform_result.v[i]
              IN IF get(original.items, "role") = PyStr(s_assistant)
                 THEN /\ DOMAIN out.items =
                           {k \in DOMAIN original.items : original.items[k] # PyNone}
                      /\ \A k \in DOMAIN out.items : out.items[k] = original.items[k]
                 ELSE out = original

\* the coroutine was awaited: an assistant message lost its null function_call
\* and kept its empty content, and a user message kept its null function_call
C5_Witness ==
    /\ transform_result.t = "list"
    /\ is_async
    /\ Len(messages_at_call) = 2
    /\ messages_at_call[1] = Msg("dict", [role |-> PyStr(s_assistant),
                                          content |-> PyStr(<<>>),
                                          function_call |-> PyNone])
    /\ transform_result.v[1] = Msg("dict", [role |-> PyStr(s_assistant),
                                            content |-> PyStr(<<>>)])
    /\ messages_at_call[2] = Msg("dict", [role |-> PyStr(s_user),
                                          content |-> PyStr(s_hi),
                                          function_call |-> PyNone])
    /\ transform_result.v[2] = messages_at_call[2]

map_called == map_result # PyNone

\* the schemas a response_format carries: json_schema.schema and
\* response_schema, where present and non-null
CarriedSchemas(rf) ==
    IF rf.t # "dict" THEN {}
    ELSE { x \in {get(rf.items, "response_schema")} : x # PyNone }
         \cup (IF "json_schema" \in DOMAIN rf.items
               THEN { x \in {get(rf.items["json_schema"].items, "schema")} : x # PyNone }
               ELSE {})

\* the output parameters force one json_tool_call tool over one of the schemas
IsJsonToolCall(out, schemas) ==
    /\ {"json_mode", "tool_choice", "tools"} \subseteq DOMAIN out
    /\ out["json_mode"] = PyBool(TRUE)
    /\ out["tool_choice"].items["type"] = PyStr(s_function)
    /\ out["tool_choice"].items["function"].items = [name |-> PyStr(s_json_tool_call)]
    /\ out["tools"].t = "list"
    /\ Len(out["tools"].v) = 1
    /\ out["tools"].v[1].items["type"] = PyStr(s_function)
    /\ out["tools"].v[1].items["function"].items["name"] = PyStr(s_json_tool_call)
    /\ out["tools"].v[1].items["function"].items["parameters"] \in schemas

\* C6: given a response_format that carries a JSON schema (under
\* json_schema.schema or under response_schema), map_openai_params returns
\* output parameters with json_mode = True, tool_choice forcing json_tool_call,
\* tools = one function tool json_tool_call whose parameters are that schema,
\* and no response_format key; the key is removed from the request parameters.
C6_SchemaBecomesToolCall ==
    LET rf == get(non_default_params_at_call, "response_format")
    IN (map_called /\ CarriedSchemas(rf) # {}) =>
          /\ map_result.t = "dict"
          /\ IsJsonToolCall(map_result.items, CarriedSchemas(rf))
          /\ "response_format" \notin DOMAIN map_result.items
          /\ "response_format" \notin DOMAIN non_default_params

\* the statement of C6 holds on every input except a response_format that has
\* a response_schema key set to None next to a json_schema carrying a schema
C6_HoldsUnlessNullResponseSchema ==
    LET rf == get(non_default_params_at_call, "response_format")
    IN \/ C6_SchemaBecomesToolCall
       \/ /\ "response_schema" \in DOMAIN rf.items
          /\ rf.items["response_schema"] = PyNone

\* C7: the service tier transform_response leaves on the response is the one
\* received when that is 'auto', 'default' or 'flex', and 'auto' when it is
\* None or any other string; so it is always one of the three, and nothing
\* else of the response changes.
C7_ServiceTierNormalized ==
    response_transformed =>
        /\ model_response.service_tier =
              IF service_tier_received \in {PyStr(s_auto), PyStr(s_default), PyStr(s_flex)}
              THEN service_tier_received
              ELSE PyStr(s_auto)
        /\ model_response.service_tier \in {PyStr(s_auto), PyStr(s_default), PyStr(s_flex)}
        /\ model_response.id = PyStr(k_id)

\* a tier the vendor invented was replaced by 'auto'
C7_Witness ==
    /\ response_transformed
    /\ service_tier_received = PyStr(s_on_demand)
    /\ model_response.service_tier = PyStr(s_auto)

\* an argument or secret that is given: not None
IsGiven(x) == x # PyNone

\* C9 as stated: the base URL is the api_base argument when one is given,
\* otherwise the GROQ_API_BASE secret when it is set, otherwise the default,
\* and never None; the key is the api_key argument when given, otherwise the
\* GROQ_API_KEY secret, otherwise None.
C9_PrecedenceByGiven ==
    provider_info # PyNone =>
        /\ provider_info[1] =
              IF IsGiven(api_base) THEN api_base
              ELSE IF IsGiven(secrets.GROQ_API_BASE) THEN secrets.GROQ_API_BASE
              ELSE PyStr(s_default_api_base)
        /\ provider_info[1] # PyNone
        /\ provider_info[2] =
              IF IsGiven(api_key) THEN api_key
              ELSE IF IsGiven(secrets.GROQ_API_KEY) THEN secrets.GROQ_API_KEY
              ELSE PyNone

\* a non-empty string
IsNonEmpty(x) == x # PyNone /\ x # PyStr(<<>>)

\* C9, amended: the base URL is the api_base argument when it is a non-empty
\* string, otherwise the GROQ_API_BASE secret when that is a non-empty string,
\* otherwise the default, so it is never None nor empty; the key is the
\* api_key argument when it is a non-empty string, otherwise whatever the
\* GROQ_API_KEY lookup returns (None when the secret is not set).
C9_PrecedenceByNonEmpty ==
    provider_info # PyNone =>
        /\ provider_info[1] =
              IF IsNonEmpty(api_base) THEN api_base
              ELSE IF IsNonEmpty(secrets.GROQ_API_BASE) THEN secrets.GROQ_API_BASE
              ELSE PyStr(s_default_api_base)
        /\ IsNonEmpty(provider_info[1])
        /\ provider_info[2] =
              IF IsNonEmpty(api_key) THEN api_key ELSE secrets.GROQ_API_KEY

\* an empty api_base argument gave way to the secret, and the argument key won
\* over the secret key
C9_Witness ==
    /\ provider_info # PyNone
    /\ api_base = PyStr(<<>>)
    /\ IsNonEmpty(secrets.GROQ_API_BASE)
    /\ provider_info[1] = secrets.GROQ_API_BASE
    /\ IsNonEmpty(api_key)
    /\ IsNonEmpty(secrets.GROQ_API_KEY)
    /\ provider_info[2] = api_key

\* the error reports print_verbose received for plugin i
ErrorReports(i) ==
    { j \in 1..Len(verbose_log) :
        verbose_log[j] = [plugin |-> i, text |-> "Custom Logger Error"] }

\* C8 as stated: whatever exception a plugin's callback raises, the helper
\* returns normally (nothing escapes), the callback was attempted exactly
\* once and the failure was reported through print_verbose; so every plugin
\* after a raising one is still dispatched to.
C8_NoExceptionEscapes ==
    /\ escaped = PyNone
    /\ \A i \in 1..dispatched :
          plugins[i] # "returns" =>
              attempts[i] = 1 /\ Cardinality(ErrorReports(i)) = 1

\* C8, amended: when a plugin's callback raises an exception derived from
\* Exception, the helper returns normally, the callback was attempted exactly
\* once and print_verbose received exactly one error report for it, and the
\* plugins after it are still dispatched to, each once; an exception leaves
\* a helper only when the callback raised one that derives from BaseException
\* alone (KeyboardInterrupt, asyncio.CancelledError), and that one is the
\* exception the caller sees.  While an async helper is suspended on a
\* callback, that callback is the next plugin's, it has been called once and
\* no exception has left a helper.
C8_ExceptionsAreIsolated ==
    /\ \A i \in 1..dispatched :
          /\ attempts[i] = 1
          /\ plugins[i] \in ExceptionClasses =>
                /\ Cardinality(ErrorReports(i)) = 1
                /\ i < dispatched \/ escaped = PyNone
    /\ \A i \in (dispatched + 1)..Len(plugins) :
          attempts[i] = IF i = awaited THEN 1 ELSE 0
    /\ awaited # 0 => awaited = dispatched + 1 /\ escaped = PyNone
    /\ escaped # PyNone =>
          /\ plugins[dispatched] \in BaseExceptionOnlyClasses
          /\ escaped.exc = plugins[dispatched]

\* three plugins, the first two raising: all three were dispatched to
C8_Witness ==
    /\ helper = "async_log_event"
    /\ Len(plugins) = 3
    /\ plugins[1] = "ValueError"
    /\ plugins[2] = "RuntimeError"
    /\ plugins[3] = "returns"
    /\ dispatched = 3
    /\ attempts = <<1, 1, 1>>
    /\ escaped = PyNone
    /\ Cardinality(ErrorReports(1)) = 1
    /\ Cardinality(ErrorReports(2)) = 1

\* C10: at every moment the consumer has received the first chunks of the
\* upstream producer, in order and unchanged (none dropped, duplicated or
\* altered); the stream ends for the consumer only when the producer has
\* ended, the consumer has then received every chunk, and it sees the
\* producer's own ending (its normal termination, or its error); until then
\* the hook can always take a further step, at most one per chunk still to
\* pull or to hand over; and with the event loop running, the stream does end
\* for the consumer.
C10_Forwarding ==
    /\ Len(received) <= Len(upstream)
    /\ received = SubSeq(upstream, 1, Len(received))
    /\ pulled = Len(received) + (IF hook_pc = "yield" THEN 1 ELSE 0)
    /\ consumer_end # "iterating" =>
          /\ received = upstream
          /\ consumer_end = upstream_end
          /\ hook_pc = "done"
    /\ consumer_end = "iterating" => ENABLED NextStream

C10_StreamForwarded == []C10_Forwarding /\ <>(consumer_end # "iterating")

\* a producer that failed after three chunks, two of them equal: the consumer
\* got the three chunks and then the error
C10_Witness ==
    /\ upstream = <<Chunk(1), Chunk(1), Chunk(2)>>
    /\ upstream_end = "error"
    /\ received = upstream
    /\ consumer_end = "error"

---------------------------------------------------------------------------

hook_finished == hook_outcome \notin {Pending, Coroutine}

\* C11: whatever logged item and payload it is called with, the default
\* async_dataset_hook never gives None back (neither from the call nor from
\* awaiting it), and once awaited it has raised NotImplementedError; so its
\* outcome is never the outcome of a hook that returned None.
C11_DatasetHookNotImplemented ==
    hook = "async_dataset_hook" =>
        /\ hook_outcome # Return(PyNone)
        /\ hook_finished =>
             /\ hook_outcome.t = "raise"
             /\ hook_outcome.exc = "NotImplementedError"

C11_Witness ==
    /\ hook = "async_dataset_hook"
    /\ hook_args["logged_item"] = Obj("logged_item", 2)
    /\ hook_args["standard_logging_payload"] # PyNone
    /\ hook_finished
    /\ hook_outcome.t = "raise"

\* what a pass-through hook gives back: the arguments it was called with
PassedThrough(h, a) ==
    CASE h \in {"get_chat_completion_prompt", "async_get_chat_completion_prompt"} ->
           PyTuple(<<a["model"], a["messages"], a["non_default_params"]>>)
      [] h = "async_filter_deployments" -> a["healthy_deployments"]
      [] h \in {"logging_hook", "async_logging_hook"} ->
           PyTuple(<<a["kwargs"], a["result"]>>)

PassThroughHooks ==
    {"get_chat_completion_prompt", "async_get_chat_completion_prompt",
     "async_filter_deployments", "logging_hook", "async_logging_hook"}

\* hook h, finished, returned without raising: None if it is a no-decision
\* hook, its inputs if it is a pass-through hook
IsDefaultNoOp(h, a, outcome) ==
    /\ outcome.t = "return"
    /\ IF h \in PassThroughHooks THEN outcome.v = PassedThrough(h, a)
       ELSE outcome.v = PyNone

\* C12 as stated: every hook of the base class, once it has finished, has
\* returned without raising, either None or its inputs unchanged.
C12_EveryHookIsNoOp ==
    hook \in Hooks /\ hook_finished => IsDefaultNoOp(hook, hook_args, hook_outcome)

\* C12, amended: every hook of the base class other than async_dataset_hook,
\* once it has finished, has returned without raising: the pass-through hooks
\* return the very arguments they were given, all the others return None.
C12_EveryHookButDatasetIsNoOp ==
    hook \in Hooks \ {"async_dataset_hook"} /\ hook_finished =>
        IsDefaultNoOp(hook, hook_args, hook_outcome)

C12_Witness ==
    /\ hook = "async_logging_hook"
    /\ hook_args["kwargs"] = Obj("kwargs", 2)
    /\ hook_args["result"] = Obj("result", 1)
    /\ hook_outcome = Return(PyTuple(<<Obj("kwargs", 2), Obj("result", 1)>>))

---------------------------------------------------------------------------

\* C13: on every instance constructed so far, a parameter the instance was
\* constructed without reads as its declared default, None, whatever the
\* other instances were constructed with.
C13_InstancesShareNothing ==
    \A i \in 1..Len(instances) : \A k \in ConfigParams :
        instances[i].args[k] = PyNone =>
            getattr(instances[i].own, class_attrs, k) = PyNone

\* the values read from an instance are those of the latest construction that
\* gave the parameter, whichever instance that was
C13_LastGivenValueIsRead ==
    \A i \in 1..Len(instances) : \A k \in ConfigParams :
        LET givers == {j \in 1..Len(instances) : instances[j].args[k] # PyNone}
        IN  getattr(instances[i].own, class_attrs, k) =
              IF givers = {} THEN PyNone
              ELSE instances[CHOOSE j \in givers : \A l \in givers : l <= j].args[k]

---------------------------------------------------------------------------

\* C14: the operations leave the caller's objects as they were: once
\* _transform_messages has been called the caller's list holds the elements it
\* held before the call, once map_openai_params has been called the caller's
\* non_default_params has the keys and values it had before the call, and
\* once a dispatch helper has been called the caller's kwargs has the keys and
\* values it had before the call.
C14_CallersObjectsUnchanged ==
    /\ transform_result # PyNone => messages = messages_at_call
    /\ map_result # PyNone => non_default_params = non_default_params_at_call
    /\ dispatched > 0 \/ awaited # 0 => kwargs = kwargs_at_call

\* what the operations do leave alone: _transform_messages keeps the length of
\* the list and every message whose role is not "assistant";
\* map_openai_params keeps every request parameter but response_format;
\* the helpers keep every key but model, messages and log_event_type
C14_WhatIsLeftAlone ==
    /\ transform_result # PyNone =>
         /\ Len(messages) = Len(messages_at_call)
         /\ \A i \in 1..Len(messages) :
              get(as_dict(messages_at_call[i]), "role") # PyStr(s_assistant) =>
                  messages[i] = messages_at_call[i]
    /\ map_result # PyNone =>
         /\ DOMAIN non_default_params_at_call \ {"response_format"}
              \subseteq DOMAIN non_default_params
         /\ \A k \in DOMAIN non_default_params :
              /\ k \in DOMAIN non_default_params_at_call
              /\ non_default_params[k] = non_default_params_at_call[k]
    /\ dispatched > 0 \/ awaited # 0 =>
         /\ DOMAIN kwargs_at_call \subseteq DOMAIN kwargs
         /\ \A k \in DOMAIN kwargs_at_call \ {"model", "messages", "log_event_type"} :
              kwargs[k] = kwargs_at_call[k]

---------------------------------------------------------------------------

TargetModels == {s_model_a, s_model_b}

\* whether the target model streams natively with a response_format: the
\* docstring of _should_fake_stream, "Groq doesn't support 'response_format'
\* while streaming", says that no model of the provider does
supports_response_format_streaming(m) == FALSE

\* the fake_stream flag is set in the dict d
FlagSet(d) == "fake_stream" \in DOMAIN d /\ d["fake_stream"] = PyBool(TRUE)

\* C15: the output parameters of map_openai_params carry the fake_stream flag
\* when the request has a non-null response_format and the target model does
\* not support streaming with it, and do not carry it when the request has no
\* response_format (absent or None) or the target model supports streaming
\* with it.
C15_FlagFollowsModelSupport ==
    map_called /\ map_result # KeyError =>
        LET rf == get(non_default_params_at_call, "response_format")
            supported == supports_response_format_streaming(model)
        IN  /\ rf # PyNone /\ ~supported => FlagSet(map_result.items)
            /\ rf = PyNone \/ supported => ~FlagSet(map_result.items)

\* the model argument is not consulted: for every target model the flag is set
\* exactly when the request has a non-null response_format, in the dict
\* map_openai_params was handed and in the dict it returns when it returns one
C15_FlagFollowsResponseFormat ==
    map_called =>
        LET rf == get(non_default_params_at_call, "response_format")
        IN  /\ FlagSet(optional_params) <=> rf # PyNone
            /\ map_result # KeyError => (FlagSet(map_result.items) <=> rf # PyNone)

C15_Witness ==
    /\ map_called
    /\ map_result # KeyError
    /\ model = s_model_b
    /\ ~supports_response_format_streaming(model)
    /\ get(non_default_params_at_call, "response_format") = [t |-> "type"]
    /\ "stream" \in DOMAIN non_default_params_at_call
    /\ FlagSet(map_result.items)

---------------------------------------------------------------------------

\* C16: every call of _truncate_text on the result of a previous call, with
\* the same max_length >= 0, returns that result unchanged; and every call of
\* truncate_standard_logging_payload_content after the first leaves the
\* payload as the first call left it.
C16_TruncationIdempotent ==
    /\ \A i \in 2..Len(text_results) : text_results[i] = text_results[1]
    /\ truncate_calls >= 1 =>
         standard_logging_object =
             truncate_standard_logging_payload_content(truncate_input)

C16_Witness ==
    /\ Len(text_results) >= 2
    /\ max_length_arg > 0
    /\ Len(text_arg) > max_length_arg
    /\ text_results[1] # text_arg
    /\ text_results[2] = text_results[1]

\* a payload truncated twice, one of whose fields the first call cut
C16_PayloadTruncatedTwice ==
    /\ truncate_calls >= 2
    /\ standard_logging_object # truncate_input

===========================================================================
